---- MODULE Spec2Model ----
(***************************************************************************)
(* Model of lib/context-helpers.js: the cursor-context classifiers of the  *)
(* LaTeX hyperclick provider.  Every classifier is a pure function of the  *)
(* current line, the cursor and the caller-supplied context record.  A     *)
(* line is a sequence of one-character strings; offsets are 0-based as in  *)
(* JavaScript, so the character at offset k is line[k + 1].                *)
(***************************************************************************)
EXTENDS Integers, Sequences, FiniteSets, TLC

VARIABLES
    line,      \* context.line: the text of the cursor's row
    point,     \* the cursor: [row, column]; context.index = point.column
    context,   \* the rest of the context record: value, startIndex, endIndex, range
    called,    \* which classifier has run ("none" before the call)
    result     \* what it returned

vars == <<line, point, context, called, result>>

----------------------------------------------------------------------------
(* Bounds of the input sets.                                               *)

MaxBraceLen == 7
MaxPathLen == 2
MaxEnvToks == 4
MaxArgLen == 5
MaxCmdToks == 5

Rows == {0, 1}

----------------------------------------------------------------------------
(* Characters and words.                                                   *)

BS == "\\"

\* JavaScript's \s, on the whitespace characters a single line can hold here.
IsSpace(c) == c \in {" ", "\t"}

W_input == <<"i", "n", "p", "u", "t">>
W_include == <<"i", "n", "c", "l", "u", "d", "e">>
W_only == <<"o", "n", "l", "y">>
W_graphics == <<"g", "r", "a", "p", "h", "i", "c", "s">>
W_minted == <<"m", "i", "n", "t", "e", "d">>
W_addbibresource == <<"a", "d", "d", "b", "i", "b", "r", "e", "s", "o", "u", "r", "c", "e">>
W_begin == <<"b", "e", "g", "i", "n">>
W_end == <<"e", "n", "d">>
W_root == <<"r", "o", "o", "t">>
W_bib == <<"b", "i", "b">>
W_caption == <<"c", "a", "p", "t", "i", "o", "n">>

W_includeonly == W_include \o W_only
W_includegraphics == W_include \o W_graphics
W_inputminted == W_input \o W_minted

----------------------------------------------------------------------------
(* String primitives of JavaScript.                                        *)

Min(a, b) == IF a < b THEN a ELSE b
Max(a, b) == IF a > b THEN a ELSE b

\* s.slice(a, b) for a, b >= 0: both ends are clamped to s.length
Slice(s, a, b) == SubSeq(s, Min(a, Len(s)) + 1, Min(b, Len(s)))

\* s.indexOf(ch, from): the first offset >= from holding ch, else -1
IndexOf(s, ch, from) ==
    LET start == Min(Max(from, 0), Len(s))
        hits == {k \in start..(Len(s) - 1) : s[k + 1] = ch}
    IN IF hits = {} THEN -1 ELSE CHOOSE k \in hits : \A j \in hits : k <= j

\* s.lastIndexOf(ch, from): the last offset <= from holding ch, else -1.  A
\* negative from is clamped to 0, so offset 0 itself is still examined.
LastIndexOf(s, ch, from) ==
    LET start == Min(Max(from, 0), Len(s) - 1)
        hits == {k \in 0..start : s[k + 1] = ch}
    IN IF hits = {} THEN -1 ELSE CHOOSE k \in hits : \A j \in hits : k >= j

\* the offset after the longest run of whitespace starting at offset p (\s*)
RECURSIVE SkipSpaces(_, _)
SkipSpaces(s, p) ==
    IF p < Len(s) /\ IsSpace(s[p + 1]) THEN SkipSpaces(s, p + 1) ELSE p

\* the word w stands at offset p of s
WordAt(s, p, w) ==
    /\ p + Len(w) <= Len(s)
    /\ \A k \in 1..Len(w) : s[p + k] = w[k]

\* [^\}]*$ from offset p: no closing brace up to the end of s
NoCloseToEnd(s, p) == \A k \in (p + 1)..Len(s) : s[k] # "}"

----------------------------------------------------------------------------
(* Results.  A classifier returns false/null (NoMatch), a bare command     *)
(* name, or a record with a range on the cursor's row.                     *)

NoRange == [row |-> -1, start |-> -1, end |-> -1]

NoMatch == [matched |-> FALSE, command |-> <<>>, range |-> NoRange, text |-> <<>>]

Range(row, a, b) == [row |-> row, start |-> a, end |-> b]

Match(cmd, rng, txt) == [matched |-> TRUE, command |-> cmd, range |-> rng, text |-> txt]

\* editor.getTextInBufferRange(range), the buffer row being context.line
GetTextInBufferRange(ln, rng) == Slice(ln, rng.start, rng.end)

NoContext == [value |-> <<>>, startIndex |-> 0, endIndex |-> 0, range |-> NoRange]

----------------------------------------------------------------------------
(* getBraceContents                                                        *)

\* slip: the check against the next opening brace is left out
getBraceContents_NoMaxEnd(pt, ln) ==
    LET index == pt.column
        contentsStartIndex == LastIndexOf(ln, "{", index - 1)
        minStartIndex == LastIndexOf(ln, "}", index - 1)
        contentsEndIndex == IndexOf(ln, "}", index)
    IN IF contentsStartIndex = -1 \/ contentsEndIndex = -1 THEN NoMatch
       ELSE IF contentsStartIndex < minStartIndex THEN NoMatch
       ELSE LET range == Range(pt.row, contentsStartIndex + 1, contentsEndIndex)
            IN Match(<<>>, range, GetTextInBufferRange(ln, range))

\* slip: the cursor is associated with the character to its left
getBraceContents_LeftAssoc(pt, ln) ==
    LET index == pt.column
        contentsStartIndex == LastIndexOf(ln, "{", index)
        minStartIndex == LastIndexOf(ln, "}", index)
        contentsEndIndex == IndexOf(ln, "}", index + 1)
        maxEndIndex == IndexOf(ln, "{", index + 1)
    IN IF contentsStartIndex = -1 \/ contentsEndIndex = -1 THEN NoMatch
       ELSE IF \/ contentsStartIndex < minStartIndex
               \/ (contentsEndIndex > maxEndIndex /\ maxEndIndex # -1) THEN NoMatch
       ELSE LET range == Range(pt.row, contentsStartIndex + 1, contentsEndIndex)
            IN Match(<<>>, range, GetTextInBufferRange(ln, range))

getBraceContents(pt, ln) ==
    LET index == pt.column
        contentsStartIndex == LastIndexOf(ln, "{", index - 1)
        minStartIndex == LastIndexOf(ln, "}", index - 1)
        contentsEndIndex == IndexOf(ln, "}", index)
        maxEndIndex == IndexOf(ln, "{", index)
    IN IF contentsStartIndex = -1 \/ contentsEndIndex = -1 THEN NoMatch
       ELSE IF \/ contentsStartIndex < minStartIndex
               \/ (contentsEndIndex > maxEndIndex /\ maxEndIndex # -1) THEN NoMatch
       ELSE LET range == Range(pt.row, contentsStartIndex + 1, contentsEndIndex)
            IN Match(<<>>, range, GetTextInBufferRange(ln, range))

----------------------------------------------------------------------------
(* isMagicFilePath                                                         *)

\* magicFileRegex = /^\s*%\s*!T[eE]X\s+(root|bib)\s*=\s*/ matched against ln:
\* [ok, kind, length of the match].  Every \s* and \s+ is followed by a
\* non-space, so the greedy run is the only one that can succeed.
MagicNoMatch == [ok |-> FALSE, kind |-> <<>>, len |-> 0]

\* slip: the regular expression carries the i flag
MagicFileMatch_IgnoreCase(ln) ==
    LET p1 == SkipSpaces(ln, 0)
        p2 == SkipSpaces(ln, p1 + 1)
        p3 == SkipSpaces(ln, p2 + 4)
        kind == IF WordAt(ln, p3, W_root) THEN W_root
                ELSE IF WordAt(ln, p3, W_bib) THEN W_bib ELSE <<>>
        p4 == SkipSpaces(ln, p3 + Len(kind))
        p5 == SkipSpaces(ln, p4 + 1)
    IN IF /\ WordAt(ln, p1, <<"%">>)
          /\ WordAt(ln, p2, <<"!">>)
          /\ (WordAt(ln, p2 + 1, <<"t">>) \/ WordAt(ln, p2 + 1, <<"T">>))
          /\ (WordAt(ln, p2 + 2, <<"e">>) \/ WordAt(ln, p2 + 2, <<"E">>))
          /\ (WordAt(ln, p2 + 3, <<"x">>) \/ WordAt(ln, p2 + 3, <<"X">>))
          /\ p3 > p2 + 4
          /\ kind # <<>>
          /\ WordAt(ln, p4, <<"=">>)
       THEN [ok |-> TRUE, kind |-> kind, len |-> p5]
       ELSE MagicNoMatch

MagicFileMatch(ln) ==
    LET p1 == SkipSpaces(ln, 0)                      \* ^\s*
        p2 == SkipSpaces(ln, p1 + 1)                 \* % \s*
        p3 == SkipSpaces(ln, p2 + 4)                 \* !T[eE]X \s+
        kind == IF WordAt(ln, p3, W_root) THEN W_root
                ELSE IF WordAt(ln, p3, W_bib) THEN W_bib ELSE <<>>
        p4 == SkipSpaces(ln, p3 + Len(kind))         \* (root|bib) \s*
        p5 == SkipSpaces(ln, p4 + 1)                 \* = \s*
    IN IF /\ WordAt(ln, p1, <<"%">>)
          /\ WordAt(ln, p2, <<"!", "T">>)
          /\ (WordAt(ln, p2 + 2, <<"e">>) \/ WordAt(ln, p2 + 2, <<"E">>))
          /\ WordAt(ln, p2 + 3, <<"X">>)
          /\ p3 > p2 + 4
          /\ kind # <<>>
          /\ WordAt(ln, p4, <<"=">>)
       THEN [ok |-> TRUE, kind |-> kind, len |-> p5]
       ELSE MagicNoMatch

\* slip: a cursor exactly at the start of the path is rejected
isMagicFilePath_StrictStart(pt, ctx) ==
    LET ln == ctx.line
        index == ctx.index
        fileMatch == MagicFileMatch(ln)
    IN IF ~fileMatch.ok THEN NoMatch
       ELSE LET filePathStartIndex == fileMatch.len
            IN IF index <= filePathStartIndex THEN NoMatch
               ELSE Match(fileMatch.kind,
                          Range(pt.row, filePathStartIndex, Len(ln)),
                          Slice(ln, filePathStartIndex, Len(ln)))

isMagicFilePath(pt, ctx) ==
    LET ln == ctx.line
        index == ctx.index
        fileMatch == MagicFileMatch(ln)
    IN IF ~fileMatch.ok THEN NoMatch
       ELSE LET filePathStartIndex == fileMatch.len
            IN IF index < filePathStartIndex THEN NoMatch
               ELSE Match(fileMatch.kind,
                          Range(pt.row, filePathStartIndex, Len(ln)),
                          Slice(ln, filePathStartIndex, Len(ln)))

----------------------------------------------------------------------------
(* isFilePath                                                              *)

\* \s*\{[^\}]*$ from offset r of s
OpenBraceToEnd(s, r) ==
    LET r1 == SkipSpaces(s, r)
    IN WordAt(s, r1, <<"{">>) /\ NoCloseToEnd(s, r1 + 1)

\* \s*(?:\[.*?\])?\s*\{[^\}]*$ from offset e of s.  The lazy .*? is extended
\* until some "]" is followed by a match of the rest, so the bracket group
\* may end at any later "]"; without such a "]" the group is skipped.
AfterCommand(s, e) ==
    LET q == SkipSpaces(s, e)
    IN \/ /\ WordAt(s, q, <<"[">>)
          /\ \E j \in (q + 1)..(Len(s) - 1) : s[j + 1] = "]" /\ OpenBraceToEnd(s, j + 1)
       \/ OpenBraceToEnd(s, q)

\* inputminted\s*\{[^\}]*\} at offset p: the offset after its "}", else -1
InputMintedEnd(s, p) ==
    LET q == SkipSpaces(s, p + Len(W_inputminted))
        close == IndexOf(s, "}", q + 1)
    IN IF WordAt(s, p, W_inputminted) /\ WordAt(s, q, <<"{">>) /\ close # -1
       THEN close + 1 ELSE -1

WordEnd(s, p, w) == IF WordAt(s, p, w) THEN p + Len(w) ELSE -1

\* The ends of capture group 1 at offset p, in the order the alternation
\* (inputminted..|input|include(?:only|graphics)?|addbibresource) tries them.
CommandEnds(s, p) ==
    << InputMintedEnd(s, p),
       WordEnd(s, p, W_input),
       WordEnd(s, p, W_includeonly),
       WordEnd(s, p, W_includegraphics),
       WordEnd(s, p, W_include),
       WordEnd(s, p, W_addbibresource) >>

\* fileRegex tried at offset p of s: the text of capture group 1, or <<>>
\* when the expression does not match there
FileMatchAt(s, p) ==
    LET ends == CommandEnds(s, p + 1)
        good == {i \in 1..Len(ends) : ends[i] # -1 /\ AfterCommand(s, ends[i])}
    IN IF WordAt(s, p, <<BS>>) /\ good # {}
       THEN Slice(s, p + 1, ends[CHOOSE i \in good : \A j \in good : i <= j])
       ELSE <<>>

\* s.match(fileRegex): capture group 1 of the leftmost match, <<>> for null
LeftmostFileMatch(s) ==
    LET starts == {p \in 0..(Len(s) - 1) : FileMatchAt(s, p) # <<>>}
    IN IF starts = {} THEN <<>>
       ELSE FileMatchAt(s, CHOOSE p \in starts : \A q \in starts : p <= q)

\* v.match(/^(\s*)(.*?)(\s*)$/): the lengths of groups 1 and 3 and group 2.
\* Group 1 takes all leading whitespace; the lazy group 2 stops at the first
\* offset from which only whitespace is left.
FileNameMatch(v) ==
    LET lead == SkipSpaces(v, 0)
        rest == {e \in lead..Len(v) : \A k \in (e + 1)..Len(v) : IsSpace(v[k])}
        stop == CHOOSE e \in rest : \A f \in rest : e <= f
    IN [lead |-> lead, name |-> Slice(v, lead, stop), trail |-> Len(v) - stop]

\* slip: trailing whitespace is not taken off the end of the range
InputBranch_NoTrailTrim(pt, ctx, fileCommand) ==
    LET index == ctx.index
        nameMatch == FileNameMatch(ctx.value)
        fileNameStartIndex == ctx.startIndex + nameMatch.lead
        fileNameEndIndex == ctx.endIndex
    IN IF index < fileNameStartIndex \/ index > fileNameEndIndex THEN NoMatch
       ELSE Match(fileCommand, Range(pt.row, fileNameStartIndex, fileNameEndIndex),
                  nameMatch.name)

\* the branch fileCommand === "input"
InputBranch(pt, ctx, fileCommand) ==
    LET index == ctx.index
        nameMatch == FileNameMatch(ctx.value)
        fileNameStartIndex == ctx.startIndex + nameMatch.lead
        fileNameEndIndex == ctx.endIndex - nameMatch.trail
    IN IF index < fileNameStartIndex \/ index > fileNameEndIndex THEN NoMatch
       ELSE Match(fileCommand, Range(pt.row, fileNameStartIndex, fileNameEndIndex),
                  nameMatch.name)

\* slip: an empty section is not rejected
IncludeBranch_KeepEmpty(pt, ctx, fileCommand) ==
    LET index == ctx.index
        valueIndex == index - ctx.startIndex
        start0 == ctx.startIndex + LastIndexOf(ctx.value, ",", valueIndex - 1)
        end0 == ctx.startIndex + IndexOf(ctx.value, ",", valueIndex)
        fileSectionStart == IF start0 < ctx.startIndex THEN ctx.startIndex ELSE start0 + 1
        fileSectionEnd == IF end0 < ctx.startIndex THEN ctx.endIndex ELSE end0
    IN LET fileSection == Slice(ctx.line, fileSectionStart, fileSectionEnd)
            nameMatch == FileNameMatch(fileSection)
            fileNameStartIndex == fileSectionStart + nameMatch.lead
            fileNameEndIndex == fileSectionEnd - nameMatch.trail
       IN IF index < fileNameStartIndex \/ index > fileNameEndIndex THEN NoMatch
          ELSE Match(fileCommand,
                     Range(pt.row, fileNameStartIndex, fileNameEndIndex),
                     nameMatch.name)

\* the branch fileCommand === "include" || fileCommand === "includeonly"
IncludeBranch(pt, ctx, fileCommand) ==
    LET index == ctx.index
        valueIndex == index - ctx.startIndex
        start0 == ctx.startIndex + LastIndexOf(ctx.value, ",", valueIndex - 1)
        end0 == ctx.startIndex + IndexOf(ctx.value, ",", valueIndex)
        fileSectionStart == IF start0 < ctx.startIndex THEN ctx.startIndex ELSE start0 + 1
        fileSectionEnd == IF end0 < ctx.startIndex THEN ctx.endIndex ELSE end0
    IN IF fileSectionEnd - fileSectionStart < 1 THEN NoMatch
       ELSE LET fileSection == Slice(ctx.line, fileSectionStart, fileSectionEnd)
                nameMatch == FileNameMatch(fileSection)
                fileNameStartIndex == fileSectionStart + nameMatch.lead
                fileNameEndIndex == fileSectionEnd - nameMatch.trail
            IN IF index < fileNameStartIndex \/ index > fileNameEndIndex THEN NoMatch
               ELSE Match(fileCommand,
                          Range(pt.row, fileNameStartIndex, fileNameEndIndex),
                          nameMatch.name)

isFilePath(pt, ctx) ==
    LET ln == ctx.line
        index == ctx.index
        fileCommand == LeftmostFileMatch(Slice(ln, 0, index))
    IN IF fileCommand = <<>> THEN NoMatch
       ELSE IF fileCommand = W_input THEN InputBranch(pt, ctx, fileCommand)
       ELSE IF fileCommand = W_include \/ fileCommand = W_includeonly
            THEN IncludeBranch(pt, ctx, fileCommand)
       ELSE IF fileCommand = W_includegraphics
            THEN Match(fileCommand, ctx.range, ctx.value)
       ELSE Match(fileCommand, ctx.range, ctx.value)

----------------------------------------------------------------------------
(* isEnvDelim                                                              *)

\* envRegex = /\\(begin|end)\s*\{[^\}]*$/ tried at offset p of s: the captured
\* word, or <<>> when the expression does not match there
EnvMatchAt(s, p) ==
    LET word == IF WordAt(s, p + 1, W_begin) THEN W_begin
                ELSE IF WordAt(s, p + 1, W_end) THEN W_end ELSE <<>>
        q == SkipSpaces(s, p + 1 + Len(word))        \* \s*
    IN IF /\ WordAt(s, p, <<BS>>)
          /\ word # <<>>
          /\ WordAt(s, q, <<"{">>)
          /\ NoCloseToEnd(s, q + 1)                  \* [^\}]*$
       THEN word ELSE <<>>

\* s.match(regex) for a regex without the g flag: the match at the leftmost
\* offset where one exists
LeftmostEnvMatch(s) ==
    LET starts == {p \in 0..(Len(s) - 1) : EnvMatchAt(s, p) # <<>>}
    IN IF starts = {} THEN <<>>
       ELSE EnvMatchAt(s, CHOOSE p \in starts : \A q \in starts : p <= q)

\* slip: the result names the last \begin/\end left of the cursor
isEnvDelim_Rightmost(ctx) ==
    LET s == Slice(ctx.line, 0, ctx.index)
        starts == {p \in 0..(Len(s) - 1) : EnvMatchAt(s, p) # <<>>}
    IN IF starts = {} THEN NoMatch
       ELSE Match(EnvMatchAt(s, CHOOSE p \in starts : \A q \in starts : p >= q), NoRange, <<>>)

isEnvDelim(ctx) ==
    LET ln == ctx.line
        index == ctx.index
        env == LeftmostEnvMatch(Slice(ln, 0, index))
    IN IF env # <<>> THEN Match(env, NoRange, <<>>) ELSE NoMatch

----------------------------------------------------------------------------
(* Input sets.                                                             *)

SeqsUpTo(S, n) == UNION {[1..k -> S] : k \in 0..n}

RECURSIVE Flatten(_)
Flatten(ts) == IF ts = <<>> THEN <<>> ELSE Head(ts) \o Flatten(Tail(ts))

\* every concatenation of one choice per slot, slots being a sequence of sets
RECURSIVE Concats(_)
Concats(slots) ==
    IF slots = <<>> THEN {<<>>}
    ELSE {a \o b : a \in Head(slots), b \in Concats(Tail(slots))}

BraceChars == {"{", "}", "a"}
BraceLines == SeqsUpTo(BraceChars, MaxBraceLen)

Points(ln) == [row : Rows, column : 0..Len(ln)]

InitBrace ==
    /\ line \in BraceLines
    /\ point \in Points(line)
    /\ context = NoContext
    /\ called = "none"
    /\ result = NoMatch

\* Directive-shaped lines and their near misses: each slot of
\* "% !TeX root = path" is drawn from the right spellings and some wrong ones.
MagicSlots ==
    << {<<>>, <<" ">>, <<"a">>},                                   \* before %
       {<<"%">>},
       {<<>>, <<" ">>},
       {<<"!", "T", "e", "X">>, <<"!", "T", "E", "X">>, <<"!", "T", "e", "x">>,
        <<"!", "t", "e", "x">>, <<"T", "e", "X">>},
       {<<>>, <<" ">>, <<"\t">>},
       {W_root, W_bib, <<"r", "o", "o">>},
       {<<>>, <<" ">>},
       {<<"=">>, <<>>},
       {<<>>, <<" ">>},
       SeqsUpTo({"a", " "}, MaxPathLen) >>

MagicLines == Concats(MagicSlots)

InitMagic ==
    /\ line \in MagicLines
    /\ point \in Points(line)
    /\ context = NoContext
    /\ called = "none"
    /\ result = NoMatch

EnvToks == {<<BS>> \o W_begin, <<BS>> \o W_end, W_end, <<"{">>, <<"}">>, <<" ">>, <<"a">>}

EnvLines == {Flatten(ts) : ts \in SeqsUpTo(EnvToks, MaxEnvToks)}

InitEnv ==
    /\ line \in EnvLines
    /\ point \in Points(line)
    /\ context = NoContext
    /\ called = "none"
    /\ result = NoMatch

\* The context record of the token between offsets a and b of ln on row r.
TokenContext(ln, r, a, b) ==
    [value |-> Slice(ln, a, b), startIndex |-> a, endIndex |-> b, range |-> Range(r, a, b)]

\* \input{V}, \include{V}, \includeonly{V}: the token is the whole argument V.
ArgCommands == {W_input, W_include, W_includeonly}
ArgValues == SeqsUpTo({",", " ", "a", "b"}, MaxArgLen)

InitArg ==
    \E cmd \in ArgCommands, v \in ArgValues :
        /\ line = <<BS>> \o cmd \o <<"{">> \o v \o <<"}">>
        /\ point \in Points(line)
        /\ context = TokenContext(line, point.row, Len(cmd) + 2, Len(cmd) + 2 + Len(v))
        /\ called = "none"
        /\ result = NoMatch

\* Any command followed by option groups, brace groups, open braces, blanks
\* and further commands; the token is the brace argument around the cursor:
\* from the nearest "{" on its left (else the line start) to the nearest "}"
\* at or right of it (else the line end).
CmdHeads == {<<BS>> \o w : w \in {W_input, W_include, W_includeonly, W_includegraphics,
                                  W_inputminted, W_addbibresource, W_caption}}
CmdToks == {<<"[", "w", "]">>, <<"{", "a", "}">>, <<"{">>, <<" ">>, <<BS>> \o W_caption}
CmdLines == {h \o Flatten(ts) : h \in CmdHeads, ts \in SeqsUpTo(CmdToks, MaxCmdToks)}

BraceToken(ln, pt) ==
    LET a == LastIndexOf(ln, "{", pt.column - 1)
        b == IndexOf(ln, "}", pt.column)
    IN TokenContext(ln, pt.row, IF pt.column = 0 THEN 0 ELSE a + 1, IF b = -1 THEN Len(ln) ELSE b)

InitCmd ==
    /\ line \in CmdLines
    /\ point \in Points(line)
    /\ context = BraceToken(line, point)
    /\ called = "none"
    /\ result = NoMatch

----------------------------------------------------------------------------
(* Actions: one call of a classifier on the inputs drawn by Init.          *)

GetBraceContents ==
    /\ called = "none"
    /\ called' = "getBraceContents"
    /\ result' = getBraceContents(point, line)
    /\ UNCHANGED <<line, point, context>>

\* the record the caller passes: line and index added to the token's fields
Ctx == [line |-> line, index |-> point.column, value |-> context.value,
        startIndex |-> context.startIndex, endIndex |-> context.endIndex,
        range |-> context.range]

IsMagicFilePath ==
    /\ called = "none"
    /\ called' = "isMagicFilePath"
    /\ result' = isMagicFilePath(point, Ctx)
    /\ UNCHANGED <<line, point, context>>

IsEnvDelim ==
    /\ called = "none"
    /\ called' = "isEnvDelim"
    /\ result' = isEnvDelim(Ctx)
    /\ UNCHANGED <<line, point, context>>

IsFilePath ==
    /\ called = "none"
    /\ called' = "isFilePath"
    /\ result' = isFilePath(point, Ctx)
    /\ UNCHANGED <<line, point, context>>

Init == InitBrace \/ InitMagic \/ InitEnv \/ InitArg \/ InitCmd

Next == GetBraceContents \/ IsMagicFilePath \/ IsEnvDelim \/ IsFilePath

Spec == Init /\ [][Next]_vars

\* One specification per classifier, on the lines that exercise it.
NextBrace == GetBraceContents

NextMagic == IsMagicFilePath

SpecMagic == InitMagic /\ [][NextMagic]_vars

NextEnv == IsEnvDelim

SpecEnv == InitEnv /\ [][NextEnv]_vars

NextFile == IsFilePath

SpecArg == InitArg /\ [][NextFile]_vars

SpecCmd == InitCmd /\ [][NextFile]_vars

SpecBrace == InitBrace /\ [][NextBrace]_vars

----------------------------------------------------------------------------
(* Properties of getBraceContents.                                         *)

\* the character at offset k of ln ("" past either end)
At(ln, k) == IF k >= 0 /\ k < Len(ln) THEN ln[k + 1] ELSE ""

IsBrace(c) == c \in {"{", "}"}

\* a is an opening brace left of cursor c with no brace between it and c
OpensAt(ln, c, a) ==
    /\ a < c /\ At(ln, a) = "{"
    /\ \A j \in (a + 1)..(c - 1) : ~IsBrace(At(ln, j))

\* b is a closing brace at or right of cursor c with no brace between c and it
ClosesAt(ln, c, b) ==
    /\ b >= c /\ At(ln, b) = "}"
    /\ \A j \in c..(b - 1) : ~IsBrace(At(ln, j))

Offsets(ln) == 0..(Len(ln) - 1)

\* C1: getBraceContents returns a match exactly when a "{" lies left of the
\* cursor, a "}" lies at or right of it, the nearest brace to the left is
\* that "{" and the nearest brace at or to the right is that "}"; the match
\* is then the text strictly between the two braces with its span on the
\* cursor's row, and otherwise the result is null (so it is null on a line
\* without braces and for "{}{}" with the cursor between the groups).
C1_EnclosingPairIff ==
    called = "getBraceContents" =>
        LET c == point.column
            pairs == {ab \in Offsets(line) \X Offsets(line) :
                        OpensAt(line, c, ab[1]) /\ ClosesAt(line, c, ab[2])}
        IN /\ result.matched <=> pairs # {}
           /\ \A ab \in pairs :
                 /\ result.range = Range(point.row, ab[1] + 1, ab[2])
                 /\ result.text = Slice(line, ab[1] + 1, ab[2])
           /\ (\A k \in Offsets(line) : ~IsBrace(At(line, k))) => ~result.matched
           /\ (line = <<"{", "}", "{", "}">> /\ c = 2) => ~result.matched

C1_Witness ==
    /\ called = "getBraceContents"
    /\ line = <<"{", "}", "{", "a", "a", "}", "a">>
    /\ point.column = 4
    /\ result.matched
    /\ result.text = <<"a", "a">>

\* C2: with the cursor at column c, a "{" at offset c never opens the
\* returned group (every returned span has start <= c <= end, so it never
\* starts at c + 1), and a "}" at offset c that closes a valid enclosing
\* pair gives a span ending at c.
C2_BoundaryPolicy ==
    called = "getBraceContents" =>
        LET c == point.column
        IN /\ result.matched =>
                 /\ result.range.start <= c /\ c <= result.range.end
                 /\ result.range.start # c + 1
           /\ At(line, c) = "{" => ~(result.matched /\ result.range.start = c + 1)
           /\ (At(line, c) = "}" /\ \E a \in Offsets(line) : OpensAt(line, c, a)) =>
                 (result.matched /\ result.range.end = c)

C2_Witness ==
    /\ called = "getBraceContents"
    /\ At(line, point.column) = "}"
    /\ At(line, point.column + 1) = "{"
    /\ result.matched
    /\ result.range.end = point.column
    /\ result.range.start < point.column

\* the nesting depth after the first k characters of ln
RECURSIVE Depth(_, _)
Depth(ln, k) ==
    IF k = 0 THEN 0
    ELSE Depth(ln, k - 1) + (IF ln[k] = "{" THEN 1 ELSE IF ln[k] = "}" THEN -1 ELSE 0)

Balanced(ln) ==
    /\ Depth(ln, Len(ln)) = 0
    /\ \A k \in 0..Len(ln) : Depth(ln, k) >= 0

\* the braces at offsets a and b form a pair of the balanced line ln
IsPair(ln, a, b) ==
    /\ a < b /\ At(ln, a) = "{" /\ At(ln, b) = "}"
    /\ Depth(ln, b + 1) = Depth(ln, a)
    /\ \A k \in (a + 1)..b : Depth(ln, k) > Depth(ln, a)

\* the pairs of ln with cursor c strictly inside
EnclosingPairs(ln, c) ==
    {ab \in Offsets(ln) \X Offsets(ln) : IsPair(ln, ab[1], ab[2]) /\ ab[1] < c /\ c <= ab[2]}

\* C3: on a line with balanced braces, getBraceContents returns the interior
\* text and span of the innermost pair enclosing the cursor, and null only
\* when no pair encloses the cursor.
C3_InnermostPair ==
    (called = "getBraceContents" /\ Balanced(line)) =>
        LET enclosing == EnclosingPairs(line, point.column)
        IN /\ result.matched <=> enclosing # {}
           /\ \A ab \in enclosing :
                 (\A xy \in enclosing : xy[1] <= ab[1]) =>
                     /\ result.range = Range(point.row, ab[1] + 1, ab[2])
                     /\ result.text = Slice(line, ab[1] + 1, ab[2])

----------------------------------------------------------------------------
(* Properties of isMagicFilePath.                                          *)

AllSpace(ln, a, b) == \A k \in a..(b - 1) : IsSpace(At(ln, k))

TeXSpellings == {<<t, e, x>> : t \in {"t", "T"}, e \in {"e", "E"}, x \in {"x", "X"}}

\* the spellings of the keyword the directive is written with
TeXAsWritten == {<<"T", "e", "X">>, <<"T", "E", "X">>}

\* The directives ln can be read as: <<kind, b, s>> when ln is optional
\* whitespace, "%", optional whitespace, "!" at offset b, the keyword in one
\* of spellings, whitespace, the kind, optional whitespace, "=", optional
\* whitespace, and s is the offset of the first character after all that.
Directives(ln, spellings) ==
    LET N == Len(ln)
        As == {a \in 0..N : AllSpace(ln, 0, a) /\ At(ln, a) = "%"}
        Bs == {b \in 0..N : /\ At(ln, b) = "!"
                            /\ \E a \in As : a < b /\ AllSpace(ln, a + 1, b)
                            /\ Slice(ln, b + 1, b + 4) \in spellings}
        KCs(b) == {kc \in {W_root, W_bib} \X (0..N) :
                      /\ b + 4 < kc[2] /\ AllSpace(ln, b + 4, kc[2])
                      /\ Slice(ln, kc[2], kc[2] + Len(kc[1])) = kc[1]}
        Ss(k, c) == {s \in 0..N : /\ ~IsSpace(At(ln, s))
                                  /\ \E d \in (c + Len(k))..(s - 1) :
                                        /\ AllSpace(ln, c + Len(k), d)
                                        /\ At(ln, d) = "="
                                        /\ AllSpace(ln, d + 1, s)}
    IN UNION {UNION {{<<kc[1], b, s>> : s \in Ss(kc[1], kc[2])} : kc \in KCs(b)} : b \in Bs}

\* C7: on a "% !TeX root=" / "% !TeX bib=" directive whose path starts at
\* offset s, isMagicFilePath returns false for a cursor left of s and
\* otherwise the kind as written, the range [s, line length] on the
\* cursor's row and the rest of the line from s unchanged; on a line that
\* is no such directive it returns false at every cursor offset.
C7_MagicPath ==
    called = "isMagicFilePath" =>
        LET ds == Directives(line, TeXAsWritten)
        IN /\ ds = {} => ~result.matched
           /\ \A kbs \in ds :
                 IF point.column < kbs[3] THEN ~result.matched
                 ELSE result = Match(kbs[1], Range(point.row, kbs[3], Len(line)),
                                     Slice(line, kbs[3], Len(line)))

C7_Witness ==
    /\ called = "isMagicFilePath"
    /\ result.matched
    /\ result.command = W_root
    /\ result.text = <<"a", " ">>
    /\ point.column > result.range.start
    /\ result.range.start > 14

\* ln with the three letters after offset b replaced by spelling sp
WithSpelling(ln, b, sp) == Slice(ln, 0, b + 1) \o sp \o Slice(ln, b + 4, Len(ln))

\* C8 as claimed: whatever the letter case of TeX after "!", the directive
\* yields the match (its kind as command, the text after "=" as path) for a
\* cursor at or after the path start.
C8_AnyCase ==
    called = "isMagicFilePath" =>
        \A kbs \in Directives(line, TeXSpellings) :
            point.column >= kbs[3] =>
                /\ result.matched
                /\ result.command = kbs[1]
                /\ result.text = Slice(line, kbs[3], Len(line))

\* C8 amended: the keyword is recognized as TeX or TEX only.  The two
\* spellings yield the same match (same command, same path) for a cursor at
\* or after the path start; every other letter case yields no match.
C8_TeXOrTEX ==
    called = "isMagicFilePath" =>
        /\ \A kbs \in Directives(line, TeXAsWritten) :
              point.column >= kbs[3] =>
                  /\ result.matched
                  /\ result.command = kbs[1]
                  /\ result.text = Slice(line, kbs[3], Len(line))
                  /\ \A sp \in TeXAsWritten :
                        isMagicFilePath(point, [Ctx EXCEPT !.line = WithSpelling(line, kbs[2], sp)])
                            = result
        /\ \A kbs \in Directives(line, TeXSpellings \ TeXAsWritten) : ~result.matched

C8_Witness ==
    /\ called = "isMagicFilePath"
    /\ result.matched
    /\ result.command = W_bib
    /\ \E b \in 0..Len(line) : Slice(line, b, b + 4) = <<"!", "T", "E", "X">>
    /\ result.text = <<"a">>

----------------------------------------------------------------------------
(* Properties of isEnvDelim.                                               *)

\* Left of cursor c, the backslash at offset p starts \begin or \end (word),
\* followed by optional whitespace and a "{" with no "}" between it and c.
OpenEnvAt(ln, c, p, word) ==
    /\ At(ln, p) = BS
    /\ p + 1 + Len(word) < c
    /\ Slice(ln, p + 1, p + 1 + Len(word)) = word
    /\ \E b \in (p + 1 + Len(word))..(c - 1) :
          /\ AllSpace(ln, p + 1 + Len(word), b)
          /\ At(ln, b) = "{"
          /\ \A k \in (b + 1)..(c - 1) : At(ln, k) # "}"

OpenEnvs(ln, c) ==
    {pw \in (0..Len(ln)) \X {W_begin, W_end} : OpenEnvAt(ln, c, pw[1], pw[2])}

\* C9: isEnvDelim returns a non-false value exactly when the text left of
\* the cursor holds \begin or \end followed by optional whitespace and a
\* "{" that no "}" closes before the cursor; the value is then the word
\* begin or end of the leftmost such occurrence.  So it is false once the
\* closing "}" lies left of the cursor, after a command that only starts
\* with end, and on a line holding neither \begin nor \end.
C9_EnvDelim ==
    called = "isEnvDelim" =>
        LET open == OpenEnvs(line, point.column)
        IN /\ result.matched <=> open # {}
           /\ \A pw \in open :
                 (\A qv \in open : pw[1] <= qv[1]) => result.command = pw[2]
           /\ result.matched => result.command \in {W_begin, W_end}
           /\ (\A p \in 0..Len(line) : ~WordAt(line, p, <<BS>> \o W_begin)
                                        /\ ~WordAt(line, p, <<BS>> \o W_end))
                 => ~result.matched

C9_Witness ==
    /\ called = "isEnvDelim"
    /\ result.matched
    /\ result.command = W_begin
    /\ Cardinality(OpenEnvs(line, point.column)) = 2
    /\ \E pw \in OpenEnvs(line, point.column) : pw[2] = W_end

----------------------------------------------------------------------------
(* Properties of isFilePath.                                               *)

IsInputLine == WordAt(line, 0, <<BS>> \o W_input \o <<"{">>)

IsIncludeLine ==
    \/ WordAt(line, 0, <<BS>> \o W_include \o <<"{">>)
    \/ WordAt(line, 0, <<BS>> \o W_includeonly \o <<"{">>)

InArgument == context.startIndex <= point.column /\ point.column <= context.endIndex

\* The span [a, b) of ln without its leading and trailing whitespace, as
\* <<start, end>>; an all-whitespace span leaves the empty span at b.
TrimmedSpan(ln, a, b) ==
    LET solid == {k \in a..(b - 1) : ~IsSpace(At(ln, k))}
    IN IF solid = {} THEN <<b, b>>
       ELSE << CHOOSE k \in solid : \A j \in solid : k <= j,
               (CHOOSE k \in solid : \A j \in solid : k >= j) + 1 >>

\* The comma-delimited segment of the token around cursor c, as <<start, end>>:
\* from after the nearest comma left of c (else the token start) to the
\* nearest comma at or right of c (else the token end).
SegmentAt(ln, ctx, c) ==
    LET left == {k \in ctx.startIndex..(c - 1) : At(ln, k) = ","}
        right == {k \in c..(ctx.endIndex - 1) : At(ln, k) = ","}
    IN << IF left = {} THEN ctx.startIndex
          ELSE (CHOOSE k \in left : \A j \in left : k >= j) + 1,
          IF right = {} THEN ctx.endIndex
          ELSE CHOOSE k \in right : \A j \in right : k <= j >>

\* what C4 and C5 say is returned for the span [a, b) holding the cursor
TrimmedResult(cmd, a, b) ==
    LET t == TrimmedSpan(line, a, b)
    IN IF t[1] <= point.column /\ point.column <= t[2]
       THEN Match(cmd, Range(point.row, t[1], t[2]), Slice(line, t[1], t[2]))
       ELSE NoMatch

IncludeCommand == IF WordAt(line, 1, W_includeonly) THEN W_includeonly ELSE W_include

\* C4 as claimed: on \include{..} / \includeonly{..} with the cursor inside
\* the argument, the result is computed from the comma-delimited segment
\* holding the cursor, empty segments included: the command, the trimmed
\* segment text and exactly the trimmed sub-span when the cursor lies within
\* that sub-span (boundaries included), false when it lies in the
\* surrounding whitespace.
C4_EverySegment ==
    (called = "isFilePath" /\ IsIncludeLine /\ InArgument) =>
        LET seg == SegmentAt(line, context, point.column)
        IN result = TrimmedResult(IncludeCommand, seg[1], seg[2])

\* C4 amended: the same for every segment of at least one character; for an
\* empty segment (an empty argument, the cursor between two adjacent commas
\* or at an empty leading or trailing segment) the result is false.  The
\* path never holds a comma and the range never leaves the segment.
C4_NonEmptySegment ==
    (called = "isFilePath" /\ IsIncludeLine /\ InArgument) =>
        LET seg == SegmentAt(line, context, point.column)
        IN /\ seg[1] < seg[2] => result = TrimmedResult(IncludeCommand, seg[1], seg[2])
           /\ seg[1] = seg[2] => ~result.matched
           /\ result.matched =>
                 /\ \A k \in 1..Len(result.text) : result.text[k] # ","
                 /\ seg[1] <= result.range.start /\ result.range.end <= seg[2]

C4_Witness ==
    /\ called = "isFilePath"
    /\ context.value = <<"a", ",", " ", "b", ",">>
    /\ WordAt(line, 1, W_includeonly)
    /\ point.column = context.startIndex + 3
    /\ result.matched
    /\ result.command = W_includeonly
    /\ result.text = <<"b">>
    /\ result.range.end = result.range.start + 1

\* C5: on \input{V} with the cursor inside the argument, the result is the
\* command input, V without its leading and trailing whitespace as path and
\* exactly the span of that trimmed text as range when the cursor lies
\* within that span (boundaries included), and false when the cursor lies
\* in the leading or trailing whitespace.
C5_InputTrimmed ==
    (called = "isFilePath" /\ IsInputLine /\ InArgument) =>
        /\ result = TrimmedResult(W_input, context.startIndex, context.endIndex)
        /\ result.matched =>
              /\ result.range.start <= point.column /\ point.column <= result.range.end
              /\ Slice(line, result.range.start, result.range.end) = result.text

C5_Witness ==
    /\ called = "isFilePath"
    /\ IsInputLine
    /\ context.value = <<" ", "a", " ", "b", " ">>
    /\ point.column = context.startIndex + 2
    /\ result.matched
    /\ result.command = W_input
    /\ result.text = <<"a", " ", "b">>

RecognizedCommands ==
    {W_input, W_include, W_includeonly, W_includegraphics, W_inputminted, W_addbibresource}

\* the offsets after the command w standing at offset p: for inputminted
\* after its closed {lang} argument, for the others after the word
CommandStops(ln, p, w) ==
    IF ~WordAt(ln, p, w) THEN {}
    ELSE IF w = W_inputminted
    THEN {e \in 0..Len(ln) :
            \E b \in (p + Len(w))..(e - 2) :
                /\ AllSpace(ln, p + Len(w), b) /\ At(ln, b) = "{"
                /\ At(ln, e - 1) = "}"
                /\ \A k \in (b + 1)..(e - 2) : At(ln, k) # "}"}
    ELSE {p + Len(w)}

\* from offset e: optional whitespace, at most one bracketed option group
\* (closed by its first "]"), optional whitespace, then a "{" left of
\* cursor c that no "}" closes before c
OpensArgument(ln, c, e) ==
    \E b \in e..(c - 1) :
        /\ At(ln, b) = "{"
        /\ \A k \in (b + 1)..(c - 1) : At(ln, k) # "}"
        /\ \/ AllSpace(ln, e, b)
           \/ \E x, y \in e..(b - 1) :
                 /\ x < y /\ At(ln, x) = "[" /\ At(ln, y) = "]"
                 /\ AllSpace(ln, e, x) /\ AllSpace(ln, y + 1, b)
                 /\ \A k \in (x + 1)..(y - 1) : At(ln, k) # "]"

InOpenArgument(ln, c) ==
    \E p \in 0..Len(ln), w \in RecognizedCommands :
        /\ At(ln, p) = BS
        /\ \E e \in CommandStops(ln, p + 1, w) : OpensArgument(ln, c, e)

\* C6: isFilePath returns false unless the text left of the cursor ends in
\* a still-open "{" that follows one of the recognized commands with at
\* most whitespace and one bracketed option group in between.
C6_OnlyInOpenArgument ==
    (called = "isFilePath" /\ result.matched) => InOpenArgument(line, point.column)

\* C10: the command field of every match of isFilePath is one of the six
\* bare command names.
C10_BareCommandName ==
    (called = "isFilePath" /\ result.matched) => result.command \in RecognizedCommands

====
